---- MODULE Spec2Model ----
(***************************************************************************)
(* A model of train.py of A-Practical-Facial-Landmark-Detector: the       *)
(* argument helper str2bool, the passes train() and validate(), and the   *)
(* epoch loop of main().  Strings are sequences of one-character strings, *)
(* loss values are reduced fractions <<numerator, denominator>>.          *)
(***************************************************************************)
EXTENDS Integers, Sequences, FiniteSets, TLC

VARIABLES
    args,           \* the parsed command line that main() reads
    numTrain,       \* number of batches the training DataLoader yields
    numVal,         \* number of batches the validation DataLoader yields
    files,          \* the disk: path -> checkpoint record
    reads,          \* the paths torch.load has been called on
    pc,             \* position of main()
    iter,           \* next value range(start_epoch, end_epoch + 1) yields
    epoch,          \* main's loop variable (unbound before the first LoopHead)
    batch,          \* number of batches the running pass has consumed
    training,       \* the nn.Module.training flag of both networks
    weights,        \* the parameter collections of both networks
    optimizer,      \* whether Adam is built and how many step() calls it took
    autograd,       \* torch's grad mode and the number of backward() calls
    meter,          \* train()'s AverageMeter `losses`
    stepLoss,       \* train()'s locals weighted_loss, loss (unbound before a batch)
    batchLosses,    \* the (weighted_loss, loss) pairs criterion returned this pass
    valLosses,      \* validate()'s list `losses`
    mainLoss,       \* main's locals weighted_train_loss, train_loss, val_loss
    scheduler,      \* the metrics scheduler.step() was called with
    writer,         \* the SummaryWriter: open flag and the scalars written
    saveCalls,      \* the save_checkpoint calls made: <<epoch of the record, filename>>
    trace,          \* the steps of the epoch loop that completed, in order
    faulted,        \* <<>> or <<pc at which an exception was raised>>
    valHist,        \* <<backbone weights, loss>> of every completed validate()
    valCalls,       \* number of validate() calls begun
    v,              \* the argument of str2bool
    sb              \* the outcome of str2bool

mainVars == <<args, numTrain, numVal, files, reads, pc, iter, epoch, batch,
              training, weights, optimizer, autograd, meter, stepLoss,
              batchLosses, valLosses, mainLoss, scheduler, writer, saveCalls,
              trace, faulted, valHist, valCalls>>
boolVars == <<v, sb>>
vars == <<mainVars, boolVars>>

(***************************************************************************)
(* Bounds of the model.                                                    *)
(***************************************************************************)
MaxEpochs == 3
MaxTrainBatches == 2
MaxValBatches == 2
MaxStrLen == 2
MaxValCalls == 2

(***************************************************************************)
(* Fractions.                                                              *)
(***************************************************************************)
RECURSIVE GCD(_, _)
GCD(a, b) == IF b = 0 THEN a ELSE GCD(b, a % b)

\* nan: what a division of zero by zero gives.
NaN == <<0, 0>>

Frac(n, d) == IF d = 0 THEN NaN ELSE <<n \div GCD(n, d), d \div GCD(n, d)>>

RECURSIVE SumSeq(_)
SumSeq(s) == IF s = <<>> THEN 0 ELSE Head(s) + SumSeq(Tail(s))

\* np.mean of a list of scalars; the mean of the empty list is nan.
NpMean(s) == Frac(SumSeq(s), Len(s))

(***************************************************************************)
(* Strings.                                                                *)
(***************************************************************************)
Digits == <<"0", "1", "2", "3", "4", "5", "6", "7", "8", "9">>

RECURSIVE StrNat(_)
StrNat(n) == IF n < 10 THEN <<Digits[n + 1]>>
             ELSE StrNat(n \div 10) \o <<Digits[(n % 10) + 1]>>

\* str(i) of a Python int.
Str(i) == IF i < 0 THEN <<"-">> \o StrNat(0 - i) ELSE StrNat(i)

\* os.path.join(a, b) of posixpath, two components.
PathJoin(a, b) ==
    IF b # <<>> /\ Head(b) = "/" THEN b
    ELSE IF a = <<>> \/ a[Len(a)] = "/" THEN a \o b
    ELSE a \o <<"/">> \o b

CheckpointPrefix ==
    <<"c", "h", "e", "c", "k", "p", "o", "i", "n", "t", "_",
      "e", "p", "o", "c", "h", "_">>

CheckpointSuffix == <<".", "p", "t", "h", ".", "t", "a", "r">>

DefaultFilename ==
    <<"c", "h", "e", "c", "k", "p", "o", "i", "n", "t">> \o CheckpointSuffix

CheckpointFilenameNoEpoch(snapshot, e) == PathJoin(snapshot, DefaultFilename)

\* filename = os.path.join(str(args.snapshot), "checkpoint_epoch_" + str(epoch) + '.pth.tar')
CheckpointFilename(snapshot, e) ==
    PathJoin(snapshot, CheckpointPrefix \o Str(e) \o CheckpointSuffix)

(***************************************************************************)
(* The inputs of a run.                                                    *)
(***************************************************************************)
StartEpochs == {-1, 9}

Snapshots == {<<"s">>, <<"s", "/">>}

ResumeGood == <<"r">>

ResumeMissing == <<"m">>

ResumePaths == {<<>>, ResumeGood, ResumeMissing}

Networks == {"plfd_backbone", "auxiliarynet"}

\* A parameter collection: where its values came from and how many optimizer
\* steps have mutated them since.
Params(src, steps) == [src |-> src, steps |-> steps]

\* The disk before the run: one checkpoint of an earlier run, of epoch 7.
InitialDisk ==
    [p \in {ResumeGood} |->
        [epoch |-> 7,
         plfd_backbone |-> Params("ckpt_plfd_backbone", 0),
         auxiliarynet |-> Params("ckpt_auxiliarynet", 0)]]

\* The (weighted_loss, loss) pairs criterion may return for a batch.
LossPairs == {<<3, 1>>, <<4, 2>>}

Unbound == <<>>

(***************************************************************************)
(* The state when main(args) is entered.                                   *)
(***************************************************************************)
MainStart ==
    /\ files = InitialDisk
    /\ reads = {}
    /\ iter = args.start_epoch
    /\ epoch = args.start_epoch
    /\ batch = 0
    /\ training = [n \in Networks |-> TRUE]
    /\ weights = [n \in Networks |-> Params("none", 0)]
    /\ optimizer = [built |-> FALSE, steps |-> 0]
    /\ autograd = [enabled |-> TRUE, backward |-> 0]
    /\ meter = [sum |-> 0, count |-> 0]
    /\ stepLoss = Unbound
    /\ batchLosses = <<>>
    /\ valLosses = <<>>
    /\ mainLoss = [weighted_train_loss |-> Unbound, train_loss |-> Unbound,
                   val_loss |-> Unbound]
    /\ scheduler = <<>>
    /\ writer = [open |-> FALSE, closed |-> FALSE, scalars |-> <<>>]
    /\ saveCalls = <<>>
    /\ trace = <<>>
    /\ faulted = <<>>
    /\ valHist = {}
    /\ valCalls = 0

Init ==
    /\ \E s \in StartEpochs, n \in 0..MaxEpochs, sn \in Snapshots, r \in ResumePaths :
          args = [start_epoch |-> s, end_epoch |-> s + n - 1,
                  snapshot |-> sn, resume |-> r]
    /\ numTrain \in 0..MaxTrainBatches
    /\ numVal \in 0..MaxValBatches
    /\ MainStart
    /\ pc = "construct"
    /\ v = <<>>
    /\ sb = [called |-> FALSE, returned |-> <<>>, raised |-> <<>>]

\* An exception nothing catches: the process ends.
Raise ==
    /\ faulted' = <<pc>>
    /\ pc' = "aborted"

(***************************************************************************)
(* main(), steps 2 and 3: models, optimizer, scheduler, data, writer.      *)
(***************************************************************************)
\* plfd_backbone = PFLDInference(); auxiliarynet = AuxiliaryNet()
ConstructModels ==
    /\ pc = "construct"
    /\ weights' = [n \in Networks |->
                      IF n = "plfd_backbone" THEN Params("init_plfd_backbone", 0)
                      ELSE Params("init_auxiliarynet", 0)]
    /\ training' = [n \in Networks |-> TRUE]
    /\ pc' = "resume"
    /\ UNCHANGED <<args, numTrain, numVal, files, reads, iter, epoch, batch,
                   optimizer, autograd, meter, stepLoss, batchLosses, valLosses,
                   mainLoss, scheduler, writer, saveCalls, trace, faulted,
                   valHist, valCalls, boolVars>>

LoadedWeightsSwapped(ck) ==
    [n \in Networks |-> IF n = "plfd_backbone" THEN ck.auxiliarynet
                        ELSE ck.plfd_backbone]

\* The state after load_state_dict of both networks from checkpoint ck.
LoadedWeights(ck) ==
    [n \in Networks |-> IF n = "plfd_backbone" THEN ck.plfd_backbone
                        ELSE ck.auxiliarynet]

\* if args.resume != '': checkpoint = torch.load(args.resume); load_state_dict x 2
Resume ==
    /\ pc = "resume"
    /\ IF args.resume = <<>>
       THEN /\ pc' = "optimizer"
            /\ UNCHANGED <<weights, reads, faulted>>
       ELSE /\ reads' = reads \cup {args.resume}
            /\ IF args.resume \in DOMAIN files
               THEN /\ weights' = LoadedWeights(files[args.resume])
                    /\ pc' = "optimizer"
                    /\ UNCHANGED faulted
               ELSE /\ Raise
                    /\ UNCHANGED weights
    /\ UNCHANGED <<args, numTrain, numVal, files, iter, epoch, batch, training,
                   optimizer, autograd, meter, stepLoss, batchLosses, valLosses,
                   mainLoss, scheduler, writer, saveCalls, trace, valHist,
                   valCalls, boolVars>>

\* criterion, torch.optim.Adam over both parameter collections, ReduceLROnPlateau
BuildOptimizer ==
    /\ pc = "optimizer"
    /\ optimizer' = [built |-> TRUE, steps |-> 0]
    /\ scheduler' = <<>>
    /\ pc' = "data"
    /\ UNCHANGED <<args, numTrain, numVal, files, reads, iter, epoch, batch,
                   training, weights, autograd, meter, stepLoss, batchLosses,
                   valLosses, mainLoss, writer, saveCalls, trace, faulted,
                   valHist, valCalls, boolVars>>

\* the two DataLoaders and writer = SummaryWriter(args.tensorboard)
OpenWriter ==
    /\ pc = "data"
    /\ writer' = [open |-> TRUE, closed |-> FALSE, scalars |-> <<>>]
    /\ iter' = args.start_epoch
    /\ pc' = "loop"
    /\ UNCHANGED <<args, numTrain, numVal, files, reads, epoch, batch, training,
                   weights, optimizer, autograd, meter, stepLoss, batchLosses,
                   valLosses, mainLoss, scheduler, saveCalls, trace, faulted,
                   valHist, valCalls, boolVars>>

RangeLastExclusive == args.end_epoch - 1

\* The last value range(args.start_epoch, args.end_epoch + 1) yields.
RangeLast == args.end_epoch

\* for epoch in range(args.start_epoch, args.end_epoch + 1):
LoopHead ==
    /\ pc = "loop"
    /\ IF iter <= RangeLast
       THEN /\ epoch' = iter
            /\ iter' = iter + 1
            /\ pc' = "train"
       ELSE /\ pc' = "close"
            /\ UNCHANGED <<epoch, iter>>
    /\ UNCHANGED <<args, numTrain, numVal, files, reads, batch, training, weights,
                   optimizer, autograd, meter, stepLoss, batchLosses, valLosses,
                   mainLoss, scheduler, writer, saveCalls, trace, faulted,
                   valHist, valCalls, boolVars>>

(***************************************************************************)
(* train(): one pass over the training loader.                             *)
(***************************************************************************)
\* AverageMeter.update(val)
MeterUpdate(m, val) == [sum |-> m.sum + val, count |-> m.count + 1]

\* AverageMeter.avg
MeterAvg(m) == Frac(m.sum, m.count)

\* optimizer.step(): both parameter collections are mutated in place.
OptimizerStep(w) == [n \in Networks |-> Params(w[n].src, w[n].steps + 1)]

\* losses = AverageMeter(); the DataParallel wrappers built here are locals of
\* train() and leave the training flag of the wrapped networks as it is.
TrainEnter ==
    /\ pc = "train"
    /\ meter' = [sum |-> 0, count |-> 0]
    /\ stepLoss' = Unbound
    /\ batchLosses' = <<>>
    /\ batch' = 0
    /\ pc' = "train_batch"
    /\ UNCHANGED <<args, numTrain, numVal, files, reads, iter, epoch, training,
                   weights, optimizer, autograd, valLosses, mainLoss, scheduler,
                   writer, saveCalls, trace, faulted, valHist, valCalls, boolVars>>

\* One iteration of `for img, landmark_gt, attribute_gt, euler_angle_gt in train_loader`.
TrainBatch ==
    /\ pc = "train_batch"
    /\ batch < numTrain
    /\ \E l \in LossPairs :
          /\ stepLoss' = <<Frac(l[1], 1), Frac(l[2], 1)>>
          /\ batchLosses' = Append(batchLosses, <<Frac(l[1], 1), Frac(l[2], 1)>>)
          /\ meter' = MeterUpdate(meter, l[2])
    /\ autograd' = [autograd EXCEPT !.backward = @ + 1]
    /\ optimizer' = [optimizer EXCEPT !.steps = @ + 1]
    /\ weights' = OptimizerStep(weights)
    /\ batch' = batch + 1
    /\ UNCHANGED <<args, numTrain, numVal, files, reads, pc, iter, epoch, training,
                   valLosses, mainLoss, scheduler, writer, saveCalls, trace,
                   faulted, valHist, valCalls, boolVars>>

\* The statement of main's loop body that follows the call of train().
AfterTrainValidate == "validate"

AfterTrain == "save"

\* What `return weighted_loss, loss` hands to main.
TrainResultMean == <<MeterAvg(meter), MeterAvg(meter)>>

TrainResult == stepLoss

\* return weighted_loss, loss: the locals of the last iteration; with no
\* iteration they are unbound and the return raises UnboundLocalError.
TrainReturn ==
    /\ pc = "train_batch"
    /\ batch = numTrain
    /\ IF stepLoss = Unbound
       THEN /\ Raise
            /\ UNCHANGED <<mainLoss, trace>>
       ELSE /\ mainLoss' = [mainLoss EXCEPT !.weighted_train_loss = TrainResult[1],
                                            !.train_loss = TrainResult[2]]
            /\ trace' = Append(trace, <<"train", epoch>>)
            /\ pc' = AfterTrain
            /\ UNCHANGED faulted
    /\ UNCHANGED <<args, numTrain, numVal, files, reads, iter, epoch, batch,
                   training, weights, optimizer, autograd, meter, stepLoss,
                   batchLosses, valLosses, scheduler, writer, saveCalls, valHist,
                   valCalls, boolVars>>

(***************************************************************************)
(* save_checkpoint                                                         *)
(***************************************************************************)
CheckpointRecordNextEpoch ==
    [epoch |-> epoch + 1,
     plfd_backbone |-> weights["plfd_backbone"],
     auxiliarynet |-> weights["auxiliarynet"]]

\* {'epoch': epoch, 'plfd_backbone': ...state_dict(), 'auxiliarynet': ...state_dict()}
CheckpointRecord ==
    [epoch |-> epoch,
     plfd_backbone |-> weights["plfd_backbone"],
     auxiliarynet |-> weights["auxiliarynet"]]

\* torch.save(state, filename)
TorchSave(disk, state, filename) ==
    [p \in DOMAIN disk \cup {filename} |-> IF p = filename THEN state ELSE disk[p]]

\* filename = os.path.join(...); save_checkpoint({...}, filename)
SaveCheckpoint ==
    /\ pc = "save"
    /\ LET filename == CheckpointFilename(args.snapshot, epoch)
       IN  /\ files' = TorchSave(files, CheckpointRecord, filename)
           /\ saveCalls' = Append(saveCalls, <<CheckpointRecord.epoch, filename, TRUE>>)
    /\ trace' = Append(trace, <<"save", epoch>>)
    /\ pc' = "validate"
    /\ UNCHANGED <<args, numTrain, numVal, reads, iter, epoch, batch, training,
                   weights, optimizer, autograd, meter, stepLoss, batchLosses,
                   valLosses, mainLoss, scheduler, writer, faulted, valHist,
                   valCalls, boolVars>>

(***************************************************************************)
(* validate(): one pass over the validation loader.                        *)
(***************************************************************************)
\* torch.mean(torch.sum((landmark_gt - landmark)**2, axis=1)) of validation
\* batch i: a value the backbone's parameters, the batch and the backbone's
\* mode determine.
LandmarkError(w, i, mode) ==
    1 + i + 3 * w.steps + (IF w.src = "init_plfd_backbone" THEN 0 ELSE 1)
      + (IF mode THEN 2 ELSE 0)

\* plfd_backbone.eval(); auxiliarynet.eval(); losses = []; with torch.no_grad():
ValidateEnter ==
    /\ pc = "validate"
    /\ training' = [n \in Networks |-> FALSE]
    /\ valLosses' = <<>>
    /\ autograd' = [autograd EXCEPT !.enabled = FALSE]
    /\ batch' = 0
    /\ valCalls' = valCalls + 1
    /\ pc' = "val_batch"
    /\ UNCHANGED <<args, numTrain, numVal, files, reads, iter, epoch, weights,
                   optimizer, meter, stepLoss, batchLosses, mainLoss, scheduler,
                   writer, saveCalls, trace, faulted, valHist, boolVars>>

\* The parameters after one iteration of validate()'s loop: untouched.
ValidateBatchWeightsStepped == OptimizerStep(weights)

ValidateBatchWeights == weights

\* One iteration of `for img, ... in wlfw_val_dataloader`.
ValidateBatch ==
    /\ pc = "val_batch"
    /\ batch < numVal
    /\ valLosses' = Append(valLosses,
                           LandmarkError(weights["plfd_backbone"], batch + 1,
                                         training["plfd_backbone"]))
    /\ weights' = ValidateBatchWeights
    /\ batch' = batch + 1
    /\ UNCHANGED <<args, numTrain, numVal, files, reads, pc, iter, epoch, training,
                   optimizer, autograd, meter, stepLoss, batchLosses, mainLoss,
                   scheduler, writer, saveCalls, trace, faulted, valHist,
                   valCalls, boolVars>>

\* return np.mean(losses), leaving the no_grad block
ValidateReturn ==
    /\ pc = "val_batch"
    /\ batch = numVal
    /\ mainLoss' = [mainLoss EXCEPT !.val_loss = NpMean(valLosses)]
    /\ autograd' = [autograd EXCEPT !.enabled = TRUE]
    /\ valHist' = valHist \cup {<<weights, NpMean(valLosses)>>}
    /\ trace' = Append(trace, <<"validate", epoch, NpMean(valLosses)>>)
    /\ pc' = "sched"
    /\ UNCHANGED <<args, numTrain, numVal, files, reads, iter, epoch, batch,
                   training, weights, optimizer, meter, stepLoss, batchLosses,
                   valLosses, scheduler, writer, saveCalls, faulted, valCalls,
                   boolVars>>

(***************************************************************************)
(* The rest of the loop body, and the end of main().                       *)
(***************************************************************************)
\* scheduler.step(val_loss)
SchedulerStep ==
    /\ pc = "sched"
    /\ scheduler' = Append(scheduler, mainLoss.val_loss)
    /\ trace' = Append(trace, <<"sched", epoch, mainLoss.val_loss>>)
    /\ pc' = "log"
    /\ UNCHANGED <<args, numTrain, numVal, files, reads, iter, epoch, batch,
                   training, weights, optimizer, autograd, meter, stepLoss,
                   batchLosses, valLosses, mainLoss, writer, saveCalls, faulted,
                   valHist, valCalls, boolVars>>

\* writer.add_scalar('data/weighted_loss', ...); writer.add_scalars('data/loss', ...)
LogScalars ==
    /\ pc = "log"
    /\ writer' = [writer EXCEPT !.scalars = @ \o
          << <<"data/weighted_loss", mainLoss.weighted_train_loss, epoch>>,
             <<"data/loss/val loss", mainLoss.val_loss, epoch>>,
             <<"data/loss/train loss", mainLoss.train_loss, epoch>> >>]
    /\ trace' = Append(trace, <<"log", epoch>>)
    /\ pc' = "loop"
    /\ UNCHANGED <<args, numTrain, numVal, files, reads, iter, epoch, batch,
                   training, weights, optimizer, autograd, meter, stepLoss,
                   batchLosses, valLosses, mainLoss, scheduler, saveCalls,
                   faulted, valHist, valCalls, boolVars>>

\* writer.close()
CloseWriter ==
    /\ pc = "close"
    /\ writer' = [writer EXCEPT !.open = FALSE, !.closed = TRUE]
    /\ pc' = "done"
    /\ UNCHANGED <<args, numTrain, numVal, files, reads, iter, epoch, batch,
                   training, weights, optimizer, autograd, meter, stepLoss,
                   batchLosses, valLosses, mainLoss, scheduler, saveCalls, trace,
                   faulted, valHist, valCalls, boolVars>>

(***************************************************************************)
(* Exceptions.  No statement of train.py sits in a try block, so whatever  *)
(* a step raises ends the process.                                         *)
(***************************************************************************)
FaultPoints == {"construct", "resume", "optimizer", "data", "train",
                "train_batch", "save", "validate", "val_batch", "sched",
                "log", "close"}

\* Where control goes when the running step raises.
AfterFaultSkipped == "loop"

AfterFault == "aborted"

\* The running step raises (a CUDA error, a full disk, an unwritable path...).
\* A raise inside save_checkpoint is a call that wrote nothing; a raise
\* inside validate() leaves the no_grad block on its way out.
Fault ==
    /\ pc \in FaultPoints
    /\ faulted' = <<pc>>
    /\ pc' = AfterFault
    /\ saveCalls' = IF pc = "save"
                    THEN Append(saveCalls,
                                <<CheckpointRecord.epoch,
                                  CheckpointFilename(args.snapshot, epoch), FALSE>>)
                    ELSE saveCalls
    /\ autograd' = [autograd EXCEPT !.enabled = TRUE]
    /\ UNCHANGED <<args, numTrain, numVal, files, reads, iter, epoch, batch,
                   training, weights, optimizer, meter, stepLoss, batchLosses,
                   valLosses, mainLoss, scheduler, writer, trace, valHist,
                   valCalls, boolVars>>

Next ==
    \/ ConstructModels
    \/ Resume
    \/ BuildOptimizer
    \/ OpenWriter
    \/ LoopHead
    \/ TrainEnter
    \/ TrainBatch
    \/ TrainReturn
    \/ SaveCheckpoint
    \/ ValidateEnter
    \/ ValidateBatch
    \/ ValidateReturn
    \/ SchedulerStep
    \/ LogScalars
    \/ CloseWriter
    \/ Fault

Spec == Init /\ [][Next]_vars

\* The loop is sequential code: whatever step is enabled is eventually taken.
FairSpec == Spec /\ WF_vars(Next)

(***************************************************************************)
(* str2bool                                                                *)
(***************************************************************************)
LowerCase == <<"a", "b", "c", "d", "e", "f", "g", "h", "i", "j", "k", "l", "m",
               "n", "o", "p", "q", "r", "s", "t", "u", "v", "w", "x", "y", "z">>

UpperCase == <<"A", "B", "C", "D", "E", "F", "G", "H", "I", "J", "K", "L", "M",
               "N", "O", "P", "Q", "R", "S", "T", "U", "V", "W", "X", "Y", "Z">>

ToLower(c) ==
    IF \E i \in 1..26 : UpperCase[i] = c
    THEN LowerCase[CHOOSE i \in 1..26 : UpperCase[i] = c]
    ELSE c

ToUpper(c) ==
    IF \E i \in 1..26 : LowerCase[i] = c
    THEN UpperCase[CHOOSE i \in 1..26 : LowerCase[i] = c]
    ELSE c

\* str.lower()
Lower(s) == [i \in 1..Len(s) |-> ToLower(s[i])]

TrueWords == {<<"y", "e", "s">>, <<"t", "r", "u", "e">>, <<"t">>, <<"y">>, <<"1">>}

FalseWords == {<<"n", "o">>, <<"f", "a", "l", "s", "e">>, <<"f">>, <<"n">>, <<"0">>}

Returned(b) == [called |-> TRUE, returned |-> <<b>>, raised |-> <<>>]

Raised(e) == [called |-> TRUE, returned |-> <<>>, raised |-> <<e>>]

Str2BoolCaseSensitive(s) ==
    IF s \in TrueWords THEN Returned(TRUE)
    ELSE IF s \in FalseWords THEN Returned(FALSE)
    ELSE Raised("ArgumentTypeError")

\* def str2bool(v)
Str2Bool(s) ==
    IF Lower(s) \in TrueWords THEN Returned(TRUE)
    ELSE IF Lower(s) \in FalseWords THEN Returned(FALSE)
    ELSE Raised("ArgumentTypeError")

\* Every way of writing word w in upper and lower case.
CaseVariants(w) ==
    {[i \in 1..Len(w) |-> IF i \in U THEN ToUpper(w[i]) ELSE w[i]] :
        U \in SUBSET (1..Len(w))}

NearWords == {<<"y", "e">>, <<"y", "e", "s", "s">>, <<"t", "r", "u">>,
              <<"t", "r", "u", "e", " ">>, <<" ", "n", "o">>, <<"n", "o", "n">>,
              <<"f", "a", "l", "s">>, <<"o", "n">>, <<"o", "f", "f">>,
              <<"1", "0">>, <<"2">>, <<"-", "1">>}

BoolAlphabet == {"y", "Y", "n", "N", "t", "F", "0", "1", "e", "o", " "}

ShortStrings == UNION {[1..n -> BoolAlphabet] : n \in 0..MaxStrLen}

BoolInputs ==
    UNION {CaseVariants(w) : w \in TrueWords \cup FalseWords \cup NearWords}
        \cup ShortStrings

\* The state in which argparse converts the value of --test_initial.
BoolInit ==
    /\ v \in BoolInputs
    /\ sb = [called |-> FALSE, returned |-> <<>>, raised |-> <<>>]
    /\ args = [start_epoch |-> 1, end_epoch |-> 1, snapshot |-> <<"s">>,
               resume |-> <<>>]
    /\ numTrain = 1
    /\ numVal = 1
    /\ MainStart
    /\ pc = "parse_args"

\* type=str2bool applied to the value given on the command line
ParseBool ==
    /\ pc = "parse_args"
    /\ ~sb.called
    /\ sb' = Str2Bool(v)
    /\ UNCHANGED <<mainVars, v>>

BoolNext == ParseBool

BoolSpec == BoolInit /\ [][BoolNext]_vars

(***************************************************************************)
(* validate() called repeatedly on a model that nothing else touches.      *)
(***************************************************************************)
ValInit ==
    /\ args = [start_epoch |-> 1, end_epoch |-> 1, snapshot |-> <<"s">>,
               resume |-> <<>>]
    /\ numTrain = MaxTrainBatches
    /\ numVal \in 0..MaxValBatches
    /\ files = InitialDisk
    /\ reads = {}
    /\ pc = "validate"
    /\ iter = 2
    /\ epoch = 1
    /\ batch = 0
    /\ training \in {[n \in Networks |-> b] : b \in BOOLEAN}
    /\ \E k \in 0..MaxTrainBatches, o \in {"init_", "ckpt_"} :
          /\ weights = [n \in Networks |->
                           IF n = "plfd_backbone"
                           THEN Params(IF o = "init_" THEN "init_plfd_backbone"
                                       ELSE "ckpt_plfd_backbone", k)
                           ELSE Params(IF o = "init_" THEN "init_auxiliarynet"
                                       ELSE "ckpt_auxiliarynet", k)]
          /\ optimizer = [built |-> TRUE, steps |-> k]
          /\ autograd = [enabled |-> TRUE, backward |-> k]
    /\ meter = [sum |-> 0, count |-> 0]
    /\ stepLoss = Unbound
    /\ batchLosses = <<>>
    /\ valLosses = <<>>
    /\ mainLoss = [weighted_train_loss |-> Unbound, train_loss |-> Unbound,
                   val_loss |-> Unbound]
    /\ scheduler = <<>>
    /\ writer = [open |-> TRUE, closed |-> FALSE, scalars |-> <<>>]
    /\ saveCalls = <<>>
    /\ trace = <<>>
    /\ faulted = <<>>
    /\ valHist = {}
    /\ valCalls = 0
    /\ v = <<>>
    /\ sb = [called |-> FALSE, returned |-> <<>>, raised |-> <<>>]

\* The caller calls validate() once more, with the same loader and networks.
ValidateAgain ==
    /\ pc = "sched"
    /\ valCalls < MaxValCalls
    /\ pc' = "validate"
    /\ UNCHANGED <<args, numTrain, numVal, files, reads, iter, epoch, batch,
                   training, weights, optimizer, autograd, meter, stepLoss,
                   batchLosses, valLosses, mainLoss, scheduler, writer, saveCalls,
                   trace, faulted, valHist, valCalls, boolVars>>

ValNext ==
    \/ ValidateEnter
    \/ ValidateBatch
    \/ ValidateReturn
    \/ ValidateAgain

ValSpec == ValInit /\ [][ValNext]_vars

(***************************************************************************)
(* Properties.                                                             *)
(***************************************************************************)
TypeOK ==
    /\ pc \in FaultPoints \cup {"loop", "done", "aborted", "parse_args"}
    /\ batch \in 0..(MaxTrainBatches + MaxValBatches)
    /\ faulted = <<>> \/ Len(faulted) = 1

InTrain == pc = "train_batch"

InValidate == pc = "val_batch"

AllTraining == \A n \in Networks : training[n]

AllEval == \A n \in Networks : ~training[n]

\* C1: in every epoch both networks are in training mode throughout train()
\* and in evaluation mode throughout validate().
C1_ModeMatchesPass ==
    /\ InTrain => AllTraining
    /\ InValidate => AllEval

StepOrder == <<"train", "save", "validate", "sched", "log">>

\* The number of steps of the loop body that precede the one pc is in.
StepsBefore ==
    CASE pc \in {"train", "train_batch"} -> 0
      [] pc = "save" -> 1
      [] pc \in {"validate", "val_batch"} -> 2
      [] pc = "sched" -> 3
      [] pc = "log" -> 4

InLoopBody == pc \in {"train", "train_batch", "save", "validate", "val_batch",
                      "sched", "log"}

\* C2: the completed steps are train, save, validate, sched, log of the first
\* epoch, then the same five of the next epoch, and so on, each once; the
\* scheduler is stepped with the loss the validation pass of the same epoch
\* returned; the step being run is the one that follows the last completed.
C2_StepOrder ==
    /\ \A i \in 1..Len(trace) :
          /\ trace[i][1] = StepOrder[((i - 1) % 5) + 1]
          /\ trace[i][2] = args.start_epoch + ((i - 1) \div 5)
          /\ trace[i][1] = "sched" =>
                /\ trace[i - 1][1] = "validate"
                /\ trace[i][3] = trace[i - 1][3]
    /\ InLoopBody =>
          /\ Len(trace) % 5 = StepsBefore
          /\ epoch = args.start_epoch + (Len(trace) \div 5)
    /\ pc \in {"loop", "close", "done"} /\ faulted = <<>> => Len(trace) % 5 = 0

C2_Witness ==
    /\ Len(trace) = 10
    /\ pc = "done"

\* C3: once a step has raised, the run is over: at the raise and ever after
\* no step completes, no batch is trained or validated, nothing is written,
\* and control never leaves the aborted state.
C3_FaultAborts ==
    [][(faulted' # <<>> =>
          (/\ pc' = "aborted"
           /\ trace' = trace
           /\ files' = files
           /\ weights' = weights
           /\ optimizer' = optimizer
           /\ valCalls' = valCalls
           /\ scheduler' = scheduler
           /\ writer' = writer))
       /\ (faulted # <<>> => (faulted' = faulted /\ saveCalls' = saveCalls))]_vars

C3_Witness ==
    /\ faulted = <<"save">>
    /\ pc = "aborted"
    /\ iter <= args.end_epoch

SaveCount(e) == Cardinality({i \in 1..Len(saveCalls) : saveCalls[i][1] = e})

TrainCompleted(e) == \E i \in 1..Len(trace) : trace[i] = <<"train", e>>

EpochsAround == (args.start_epoch - 2)..(args.end_epoch + 2)

\* C4: every epoch has at most one save_checkpoint call; it has exactly one
\* once its training pass has completed and control has passed the call, and
\* none otherwise; the record of the i-th call carries the i-th epoch.
C4_OneCheckpointPerEpoch ==
    /\ \A e \in EpochsAround :
          /\ SaveCount(e) <= 1
          /\ SaveCount(e) = 1 <=> (TrainCompleted(e) /\ ~(pc = "save" /\ epoch = e))
    /\ \A i \in 1..Len(saveCalls) :
          /\ saveCalls[i][1] = args.start_epoch + i - 1
          /\ saveCalls[i][1] \in args.start_epoch..args.end_epoch

C4_Witness ==
    /\ Len(saveCalls) = 2
    /\ pc = "done"

\* C5: different epochs give different checkpoint filenames, the filename is
\* the snapshot directory joined with checkpoint_epoch_<epoch>.pth.tar, and
\* every checkpoint a run wrote still holds the record of its own epoch.
C5_FilenamePerEpoch ==
    /\ \A e1, e2 \in EpochsAround :
          e1 # e2 => CheckpointFilename(args.snapshot, e1)
                        # CheckpointFilename(args.snapshot, e2)
    /\ CheckpointFilename(<<"s">>, 10) =
          <<"s", "/">> \o CheckpointPrefix \o <<"1", "0">> \o CheckpointSuffix
    /\ CheckpointFilename(<<"s", "/">>, -1) =
          <<"s", "/">> \o CheckpointPrefix \o <<"-", "1">> \o CheckpointSuffix
    /\ \A i, j \in 1..Len(saveCalls) : i # j => saveCalls[i][2] # saveCalls[j][2]
    /\ \A i \in 1..Len(saveCalls) :
          saveCalls[i][3] =>
             /\ saveCalls[i][2] \in DOMAIN files
             /\ files[saveCalls[i][2]].epoch = saveCalls[i][1]

C5_Witness ==
    /\ Len(saveCalls) = 2
    /\ saveCalls[1][3] /\ saveCalls[2][3]
    /\ args.start_epoch = 9
    /\ pc = "done"

EpochCount ==
    IF args.end_epoch < args.start_epoch THEN 0
    ELSE args.end_epoch - args.start_epoch + 1

\* C6: a run in which no step raises ends, and when it has ended the epochs
\* start_epoch..end_epoch have been processed in increasing order, each once,
\* and the writer is closed; with start_epoch > end_epoch nothing was trained,
\* saved or validated.
C6_TerminatesAfterRange ==
    /\ <>(pc = "done" \/ faulted # <<>>)
    /\ [](pc = "done" =>
            /\ faulted = <<>>
            /\ writer.closed
            /\ Len(trace) = 5 * EpochCount
            /\ \A i \in 1..Len(trace) :
                  trace[i][2] = args.start_epoch + ((i - 1) \div 5)
            /\ Len(saveCalls) = EpochCount
            /\ valCalls = EpochCount
            /\ args.start_epoch > args.end_epoch =>
                  /\ trace = <<>>
                  /\ optimizer.steps = 0)

C6_Witness ==
    /\ pc = "done"
    /\ Len(trace) = 10
    /\ writer.closed

\* C7: str2bool returns True when the lower-cased argument is one of yes,
\* true, t, y, 1, returns False when it is one of no, false, f, n, 0, and
\* otherwise raises ArgumentTypeError and returns nothing.
C7_Str2Bool ==
    sb.called =>
        LET l == Lower(v)
            isTrue == l \in {<<"y", "e", "s">>, <<"t", "r", "u", "e">>, <<"t">>,
                             <<"y">>, <<"1">>}
            isFalse == l \in {<<"n", "o">>, <<"f", "a", "l", "s", "e">>, <<"f">>,
                              <<"n">>, <<"0">>}
        IN  /\ isTrue => sb.returned = <<TRUE>> /\ sb.raised = <<>>
            /\ isFalse => sb.returned = <<FALSE>> /\ sb.raised = <<>>
            /\ ~isTrue /\ ~isFalse =>
                  sb.returned = <<>> /\ sb.raised = <<"ArgumentTypeError">>

C7_Witness ==
    /\ sb.called
    /\ v = <<"T", "r", "U", "e">>
    /\ sb.returned = <<TRUE>>

\* C8: validate() runs with gradient tracking disabled, calls neither
\* backward nor the optimizer, leaves the parameters of both networks and the
\* optimizer state as they are, and so returns the same loss whenever it is
\* called again with the same loader and parameters.
C8_ValidateMutatesNothing ==
    /\ [][(pc = "validate" \/ pc = "val_batch") =>
             (/\ weights' = weights
              /\ optimizer' = optimizer
              /\ autograd'.backward = autograd.backward)]_vars
    /\ [](InValidate => ~autograd.enabled)
    /\ [](\A h1, h2 \in valHist : h1[1] = h2[1] => h1[2] = h2[2])
    /\ [](Cardinality(valHist) <= 1)

C8_Witness ==
    /\ valCalls = 2
    /\ pc = "sched"
    /\ numVal = 2
    /\ Cardinality(valHist) = 1

\* C9: with a resume path both networks hold the checkpoint's plfd_backbone
\* and auxiliarynet entries from before the optimizer is built, with none
\* both hold their fresh initialization and no checkpoint is read; either way
\* the first epoch processed is start_epoch and all lie in
\* start_epoch..end_epoch, whatever epoch the checkpoint stores.
C9_ResumeRestoresWeights ==
    /\ optimizer.built =>
          IF args.resume # <<>>
          THEN /\ reads = {args.resume}
               /\ weights["plfd_backbone"].src = "ckpt_plfd_backbone"
               /\ weights["auxiliarynet"].src = "ckpt_auxiliarynet"
          ELSE /\ reads = {}
               /\ weights["plfd_backbone"].src = "init_plfd_backbone"
               /\ weights["auxiliarynet"].src = "init_auxiliarynet"
    /\ optimizer.steps > 0 => optimizer.built
    /\ args.resume = <<>> => reads = {}
    /\ trace # <<>> => trace[1][2] = args.start_epoch
    /\ \A i \in 1..Len(trace) : trace[i][2] \in args.start_epoch..args.end_epoch
    /\ InLoopBody => epoch \in args.start_epoch..args.end_epoch

C9_Witness ==
    /\ args.resume = ResumeGood
    /\ pc = "done"
    /\ Len(trace) = 10
    /\ weights["plfd_backbone"].src = "ckpt_plfd_backbone"

LastBatch == batchLosses[Len(batchLosses)]

\* C10: what train() returns, and what main logs for the epoch, is the
\* (weighted_loss, loss) pair of the last batch of the pass, whatever the
\* meter, updated once per batch, has accumulated; a pass over an empty
\* loader returns nothing and raises.
C10_TrainReturnsLastBatch ==
    /\ meter.count = Len(batchLosses)
    /\ pc \in {"save", "validate", "val_batch", "sched", "log"} =>
          /\ batchLosses # <<>>
          /\ mainLoss.weighted_train_loss = LastBatch[1]
          /\ mainLoss.train_loss = LastBatch[2]
    /\ pc = "loop" /\ writer.scalars # <<>> =>
          LET n == Len(writer.scalars)
          IN  /\ writer.scalars[n - 2] = <<"data/weighted_loss", LastBatch[1], epoch>>
              /\ writer.scalars[n] = <<"data/loss/train loss", LastBatch[2], epoch>>
    /\ numTrain = 0 =>
          /\ trace = <<>>
          /\ pc \notin {"save", "validate", "val_batch", "sched", "log", "close", "done"}
             \/ EpochCount = 0

C10_Witness ==
    /\ pc = "loop"
    /\ Len(batchLosses) = 2
    /\ batchLosses[1] # batchLosses[2]
    /\ Len(writer.scalars) = 3

====
